---- MODULE Spec2Model ----
EXTENDS Integers, Sequences, FiniteSets, TLC

\* Verification model of the forward plugin's setup (plugin/forward/setup.go):
\* parseForward / parseStanza / parseBlock, the registration loop of setup,
\* and the OnStartup / OnShutdown hooks driven by the host process.

Max == 15

MaxStanzas == 2
MaxBlock == 2
MaxSmallDests == 2
MaxTicks == 1

\* ---------------------------------------------------------------- strings
\* Names and lines are sequences of characters, each its Unicode code point.
\* '#', '/', '.' and '\r':
ChHash == 35
ChSlash == 47
ChDot == 46
ChCR == 13

\* Upper-case letters of ASCII and Latin-1.
Upper == (65..90) \cup ((192..222) \ {215})
\* Lower-case of a character (ASCII and Latin-1 letters).
Lower(ch) == IF ch \in Upper THEN ch + 32 ELSE ch

\* plugin.Host(x).Normalize(): lower-cased, fully qualified.
Normalize(s) ==
  LET low == [i \in 1..Len(s) |-> Lower(s[i])]
  IN IF Len(low) > 0 /\ low[Len(low)] = ChDot THEN low ELSE Append(low, ChDot)

\* strings.Split(s, sep): n separators give n+1 parts.
RECURSIVE Split(_, _)
Split(s, sep) ==
  IF \E i \in 1..Len(s) : s[i] = sep
  THEN LET j == CHOOSE j \in 1..Len(s) : s[j] = sep /\ \A k \in 1..(j-1) : s[k] # sep
       IN <<SubSeq(s, 1, j-1)>> \o Split(SubSeq(s, j+1, Len(s)), sep)
  ELSE <<s>>

\* unicode.IsSpace outside Latin-1: U+1680, U+2000-U+200A, U+2028, U+2029,
\* U+202F, U+205F, U+3000.
WideSpace == {5760} \cup (8192..8202) \cup {8232, 8233, 8239, 8287, 12288}
\* bytes.Fields: asciiSpace ('\t' '\n' '\v' '\f' '\r' ' ') on ASCII lines,
\* unicode.IsSpace (those, U+0085, U+00A0 and WideSpace) otherwise; both agree
\* on every character a line can hold.
WhiteSpace == {9, 10, 11, 12, 13, 32, 133, 160} \cup WideSpace
\* Bytes of a line in UTF-8: 1 below U+0080, 2 below U+0800, 3 below
\* U+10000, 4 above.
ByteLen(l) ==
  Len(l) + Cardinality({i \in 1..Len(l) : l[i] >= 128})
         + Cardinality({i \in 1..Len(l) : l[i] >= 2048})
         + Cardinality({i \in 1..Len(l) : l[i] >= 65536})

\* bytes.Fields(line): the maximal runs of non-white-space characters.
RECURSIVE FieldsAcc(_, _, _)
FieldsAcc(s, cur, acc) ==
  IF s = <<>>
  THEN IF cur = <<>> THEN acc ELSE Append(acc, cur)
  ELSE IF Head(s) \in WhiteSpace
       THEN FieldsAcc(Tail(s), <<>>, IF cur = <<>> THEN acc ELSE Append(acc, cur))
       ELSE FieldsAcc(Tail(s), Append(cur, Head(s)), acc)
Fields(s) == FieldsAcc(s, <<>>, <<>>)

\* bytes.Index(line, '#') >= 0 => line = line[0:i]
DiscardComment(line) ==
  IF \E i \in 1..Len(line) : line[i] = ChHash
  THEN LET i == CHOOSE i \in 1..Len(line) : line[i] = ChHash /\ \A k \in 1..(i-1) : line[k] # ChHash
       IN SubSeq(line, 1, i-1)
  ELSE line

ExceptLineFirstPart(line) ==
  LET fields == Fields(DiscardComment(line))
  IN IF Len(fields) # 1 THEN <<>>
     ELSE LET splits == Split(fields[1], ChSlash)
          IN IF Len(splits) = 1 THEN <<Normalize(splits[1])>>
             ELSE IF Len(splits) = 3 THEN <<Normalize(splits[1])>>
             ELSE <<>>

\* Names the except_file loop appends for one scanned line.
ExceptLine(line) ==
  LET fields == Fields(DiscardComment(line))
  IN IF Len(fields) # 1 THEN <<>>
     ELSE LET splits == Split(fields[1], ChSlash)
          IN IF Len(splits) = 1 THEN <<Normalize(splits[1])>>
             ELSE IF Len(splits) = 3 THEN <<Normalize(splits[2])>>
             ELSE <<>>

\* bufio.MaxScanTokenSize: a line that does not fit the scanner's buffer
\* (with its newline) ends the scan with ErrTooLong, which is not checked.
MaxScanTokenSize == 65536

\* bufio.ScanLines drops a trailing '\r'.
DropCR(l) == IF Len(l) > 0 /\ l[Len(l)] = ChCR THEN SubSeq(l, 1, Len(l) - 1) ELSE l

\* The scanner.Scan() loop over the lines of the file.
RECURSIVE ExceptFile(_)
ExceptFile(lines) ==
  IF lines = <<>> THEN <<>>
  ELSE IF ByteLen(Head(lines)) >= MaxScanTokenSize THEN <<>>
  ELSE ExceptLine(DropCR(Head(lines))) \o ExceptFile(Tail(lines))

\* ---------------------------------------------------------------- inputs
\* strconv.Atoi and time.ParseDuration on the argument strings the model uses;
\* a string outside the domain fails to parse.
Num == ("-1" :> -1) @@ ("0" :> 0) @@ ("1" :> 1) @@ ("2" :> 2)
Dur == ("-1s" :> -1000) @@ ("0s" :> 0) @@ ("1s" :> 1000)
\* Names given to except, as characters.
ArgChars == ("AB" :> <<65, 66>>) @@ ("a." :> <<97, 46>>) @@ ("B.a" :> <<66, 46, 97>>)
\* Contents of the files except_file may open, one entry per scanned line.
Files ==
  ("f1" :> << <<97, 47, 65, 66, 47, 97>>, <<32, 35, 97>> >>)
  @@ ("long" :> << [i \in 1..MaxScanTokenSize |-> 97], <<97>> >>)
  @@ ("wide" :> << [i \in 1..(MaxScanTokenSize \div 2) |-> 160], <<97>> >>)
  @@ ("accent" :> << <<35>> \o [i \in 1..(MaxScanTokenSize \div 2) |-> 233], <<98>> >>)
  @@ ("cjk" :> << <<35>> \o [i \in 1..(MaxScanTokenSize \div 3) |-> 20013], <<98>> >>)
  @@ ("crlf" :> << <<66, 13>>, <<97, 47, 97, 13>> >>)

\* Transport tags from parse.Transport; "?" stands for an address
\* parse.HostPortOrFile cannot parse.
Trans == {"dns", "tls", "grpc"}
\* Destination lists after parse.HostPortOrFile, as transport tags.
DestLists ==
  {<<>>, <<"?">>}
  \cup UNION {[1..n -> Trans] : n \in 1..MaxSmallDests}
  \cup {[i \in 1..Max |-> "dns"], [i \in 1..(Max + 1) |-> "dns"]}

Opt(k, a) == [k |-> k, args |-> a]
Opts ==
  { Opt("except", <<"AB">>), Opt("except_file", <<"f1">>),
    Opt("max_fails", <<"1">>), Opt("max_fails", <<"-1">>),
    Opt("health_check", <<"1s">>), Opt("health_check", <<"0s", "no_rec">>),
    Opt("health_check", <<"-1s">>), Opt("health_check", <<"1s", "x">>),
    Opt("force_tcp", <<>>), Opt("prefer_udp", <<>>),
    Opt("tls", <<>>), Opt("tls", <<"c", "k", "ca", "x">>),
    Opt("tls", <<"c", "k">>), Opt("tls", <<"nofile">>),
    Opt("max_fails", <<"1", "2">>), Opt("max_fails", <<"1", "force_tcp">>),
    Opt("tls_servername", <<"s", "tls">>),
    Opt("max_fails", <<"1", "}">>), Opt("tls_servername", <<"s", "}">>),
    Opt("tls_servername", <<"s">>),
    Opt("expire", <<"1s">>), Opt("expire", <<"-1s">>),
    Opt("policy", <<"random">>), Opt("policy", <<"round_robin">>),
    Opt("policy", <<"sequential">>), Opt("policy", <<"fifo">>),
    Opt("max_concurrent", <<"2">>), Opt("max_concurrent", <<"-1">>),
    Opt("retry_failed", <<"0">>), Opt("retry_failed", <<"1">>),
    Opt("retry_failed", <<"2">>), Opt("retry_failed", <<"-1">>),
    Opt("bogus", <<>>) }
NoOpt == Opt("none", <<>>)

\* ---------------------------------------------------------------- objects
NoTLS == [src |-> "none", nargs |-> 0, sn |-> ""]

\* NewProxy(h, trans)
NewProxy(trans) ==
  [trans |-> trans, tls |-> NoTLS, expire |-> 0, rec |-> TRUE,
   running |-> FALSE, interval |-> 0]

\* New(): the defaults of a Forward.
New ==
  [from |-> ".", proxies |-> <<>>, maxfails |-> 2, hcInterval |-> 500,
   opts |-> [forceTCP |-> FALSE, preferUDP |-> FALSE, hcRecursionDesired |-> TRUE],
   tlsConfig |-> [src |-> "new", nargs |-> 0, sn |-> ""], tlsServerName |-> "",
   expire |-> 10000, p |-> "random", maxConcurrent |-> 0, limitMsg |-> "",
   maxFailedTries |-> 0, ignored |-> <<>>, index |-> 0]

\* pkgtls.NewTLSConfigFromArgs(args...)
\* Certificate, key and CA files it can load.
ReadableFiles == {"c", "k", "ca"}
NewTLSConfigFromArgs(args) == [src |-> "args", nargs |-> Len(args), sn |-> ""]
\* It returns an error when one of the files cannot be loaded.
TLSLoadFails(args) == \E i \in 1..Len(args) : args[i] \notin ReadableFiles

Ok(g) == [err |-> "", f |-> g]
Fail(e) == [err |-> e, f |-> New]

NegativeBelowMinusOne(n) == n < -1

\* The n < 0 checks of parseBlock.
Negative(n) == n < 0
RetryTooLargeOffByOne(n, f) == n > Len(f.proxies) + 1

\* retry_failed: n > len(f.proxies)
RetryTooLarge(n, f) == n > Len(f.proxies)
\* force_tcp / prefer_udp
SetForceTCP(f) == [f EXCEPT !.opts.forceTCP = TRUE]
SetPreferUDPClearingForce(f) == [f EXCEPT !.opts.preferUDP = TRUE, !.opts.forceTCP = FALSE]
SetPreferUDP(f) == [f EXCEPT !.opts.preferUDP = TRUE]
PolicyNamesWithFifo == {"random", "round_robin", "sequential", "fifo"}

\* The cases of the policy switch.
PolicyNames == {"random", "round_robin", "sequential"}
AllowedTransWithGrpc == {"dns", "tls", "grpc"}

\* allowedTrans of parseStanza
AllowedTrans == {"dns", "tls"}
TooManyOffByOne(g) == Len(g.proxies) > Max + 1

\* setup: f.Len() > max
TooMany(g) == Len(g.proxies) > Max

\* The health_check option loop over the options after the interval.
RECURSIVE HcOpts(_, _)
HcOpts(g, rest) ==
  IF rest = <<>> THEN Ok(g)
  ELSE IF Head(rest) = "no_rec"
       THEN HcOpts([g EXCEPT !.opts.hcRecursionDesired = FALSE], Tail(rest))
       ELSE Fail("health_check: unknown option")

\* Tokens of its line parseBlock reads (c.NextArg / c.RemainingArgs).
ArgsRead(o) ==
  IF o.k \in {"max_fails", "tls_servername", "expire", "policy", "max_concurrent", "retry_failed"}
  THEN 1 ELSE Len(o.args)

\* parseBlock(c, f) for one block line o.
ParseBlock(f, o) ==
  LET a == o.args IN
  CASE o.k = "except" ->
         IF Len(a) = 0 THEN Fail("ArgErr")
         ELSE Ok([f EXCEPT !.ignored = @ \o [i \in 1..Len(a) |-> Normalize(ArgChars[a[i]])]])
    [] o.k = "except_file" ->
         IF Len(a) # 1 THEN Fail("ArgErr")
         ELSE IF a[1] \notin DOMAIN Files THEN Fail("open")
         ELSE Ok([f EXCEPT !.ignored = @ \o ExceptFile(Files[a[1]])])
    [] o.k = "max_fails" ->
         IF Len(a) = 0 THEN Fail("ArgErr")
         ELSE IF a[1] \notin DOMAIN Num THEN Fail("Atoi")
         ELSE IF Negative(Num[a[1]]) THEN Fail("max_fails can't be negative")
         ELSE Ok([f EXCEPT !.maxfails = Num[a[1]]])  \* uint32(n), n >= 0 here
    [] o.k = "health_check" ->
         IF Len(a) = 0 THEN Fail("ArgErr")
         ELSE IF a[1] \notin DOMAIN Dur THEN Fail("ParseDuration")
         ELSE IF Negative(Dur[a[1]]) THEN Fail("health_check can't be negative")
         ELSE HcOpts([f EXCEPT !.hcInterval = Dur[a[1]]], Tail(a))
    [] o.k = "force_tcp" ->
         IF Len(a) > 0 THEN Fail("ArgErr")
         ELSE Ok(SetForceTCP(f))
    [] o.k = "prefer_udp" ->
         IF Len(a) > 0 THEN Fail("ArgErr")
         ELSE Ok(SetPreferUDP(f))
    [] o.k = "tls" ->
         IF Len(a) > 3 THEN Fail("ArgErr")
         ELSE IF TLSLoadFails(a) THEN Fail("tls")
         ELSE Ok([f EXCEPT !.tlsConfig = NewTLSConfigFromArgs(a)])
    [] o.k = "tls_servername" ->
         IF Len(a) = 0 THEN Fail("ArgErr")
         ELSE Ok([f EXCEPT !.tlsServerName = a[1]])
    [] o.k = "expire" ->
         IF Len(a) = 0 THEN Fail("ArgErr")
         ELSE IF a[1] \notin DOMAIN Dur THEN Fail("ParseDuration")
         ELSE IF Negative(Dur[a[1]]) THEN Fail("expire can't be negative")
         ELSE Ok([f EXCEPT !.expire = Dur[a[1]]])
    [] o.k = "policy" ->
         IF Len(a) = 0 THEN Fail("ArgErr")
         ELSE IF a[1] \in PolicyNames
              THEN Ok([f EXCEPT !.p = a[1]])
              ELSE Fail("unknown policy")
    [] o.k = "max_concurrent" ->
         IF Len(a) = 0 THEN Fail("ArgErr")
         ELSE IF a[1] \notin DOMAIN Num THEN Fail("Atoi")
         ELSE IF Negative(Num[a[1]]) THEN Fail("max_concurrent can't be negative")
         ELSE Ok([f EXCEPT !.limitMsg = a[1], !.maxConcurrent = Num[a[1]]])
    [] o.k = "retry_failed" ->
         IF Len(a) = 0 THEN Fail("ArgErr")
         ELSE IF a[1] \notin DOMAIN Num THEN Fail("Atoi")
         ELSE IF Negative(Num[a[1]]) THEN Fail("retry_failed can't be negative")
         ELSE IF RetryTooLarge(Num[a[1]], f) THEN Fail("retry_failed can't be larger than number of proxies")
         ELSE Ok([f EXCEPT !.maxFailedTries = Num[a[1]]])
    [] OTHER -> Fail("unknown property")

\* parseStanza's c.NextBlock() loop over the tokens of one block line: a
\* token parseBlock left unread is taken by Dispenser.NextBlock, which ends
\* the block on "}" and otherwise hands it to parseBlock as the next
\* property. closed: the block ended on this line.
RECURSIVE ParseTokens(_, _)
ParseTokens(f, toks) ==
  LET o == Opt(Head(toks), Tail(toks))
      r == ParseBlock(f, o)
      rest == SubSeq(o.args, ArgsRead(o) + 1, Len(o.args))
  IN IF r.err # "" \/ rest = <<>>
     THEN [err |-> r.err, f |-> r.f, ran |-> <<o>>, closed |-> FALSE]
     ELSE IF Head(rest) = "}"
     THEN [err |-> "", f |-> r.f, ran |-> <<o>>, closed |-> TRUE]
     ELSE LET n == ParseTokens(r.f, rest) IN [n EXCEPT !.ran = <<o>> \o @]

FinishStanzaTLSForAll(f) ==
  LET cfg == IF f.tlsServerName # "" THEN [f.tlsConfig EXCEPT !.sn = f.tlsServerName]
             ELSE f.tlsConfig
  IN [f EXCEPT
        !.tlsConfig = cfg,
        !.proxies = [i \in 1..Len(f.proxies) |->
                      [f.proxies[i] EXCEPT
                         !.tls = cfg,
                         !.expire = f.expire,
                         !.rec = f.opts.hcRecursionDesired]]]

\* parseStanza, lines 123-135: after the block.
FinishStanza(f) ==
  LET cfg == IF f.tlsServerName # "" THEN [f.tlsConfig EXCEPT !.sn = f.tlsServerName]
             ELSE f.tlsConfig
  IN [f EXCEPT
        !.tlsConfig = cfg,
        !.proxies = [i \in 1..Len(f.proxies) |->
                      [f.proxies[i] EXCEPT
                         !.tls = IF f.proxies[i].trans = "tls" THEN cfg ELSE @,
                         !.expire = f.expire,
                         !.rec = f.opts.hcRecursionDesired]]]

\* ---------------------------------------------------------------- state
VARIABLES
  phase,      \* "next" (c.Next), "block", "closed" (block ended by "}"), "setup", "ready", "started", "stopped", "err"
  f,          \* the Forward parseStanza is building
  dests,      \* transport tags of the current stanza's destinations
  lastOpt,    \* the last block line handed to parseBlock
  nopts,      \* block lines read in the current stanza
  kinds,      \* block properties seen in the current stanza (history)
  kindsOf,    \* kinds of each parsed stanza, parallel to fs (history)
  fs,         \* the Forwards parseForward returned so far
  si,         \* index of setup's registration loop
  plugins,    \* stanza indices whose plugin was added with AddPlugin
  startHooks, \* stanza indices whose OnStartup hook was registered
  shutHooks,  \* stanza indices whose OnShutdown hook was registered
  started,    \* stanzas whose OnStartup has run
  stopped,    \* stanzas whose OnShutdown has run
  ticks,      \* health-probe ticks fired
  lastTick,   \* stanza of the last tick
  hk,         \* index of the host's hook loop
  px,         \* index of the running hook's proxy loop
  err,        \* the error setup returned
  line        \* the line the except_file scanner read last

vars == <<phase, f, dests, lastOpt, nopts, kinds, kindsOf, fs, si, plugins,
          startHooks, shutHooks, started, stopped, ticks, lastTick, err, line, hk, px>>

NoErr == [stz |-> 0, reason |-> ""]
OkPhases == {"ready", "starting", "started", "stopping", "stopped"}

Init ==
  /\ phase = "next"
  /\ f = New
  /\ dests = <<>>
  /\ lastOpt = NoOpt
  /\ nopts = 0
  /\ kinds = {}
  /\ kindsOf = <<>>
  /\ fs = <<>>
  /\ si = 1
  /\ plugins = <<>>
  /\ startHooks = <<>>
  /\ shutHooks = <<>>
  /\ started = {}
  /\ stopped = {}
  /\ ticks = 0
  /\ lastTick = 0
  /\ hk = 0
  /\ px = 0
  /\ err = NoErr
  /\ line = <<>>

KindsAfter(ks, o) ==
  ks \cup {o.k}
     \cup (IF o.k = "health_check" /\ \E i \in 1..Len(o.args) : o.args[i] = "no_rec"
           THEN {"no_rec"} ELSE {})
     \cup (IF o.k = "tls" /\ "tls_servername" \in ks THEN {"sn_before_tls"} ELSE {})

\* kinds after every property the c.NextBlock() loop dispatched for one line.
RECURSIVE FoldKinds(_, _)
FoldKinds(ks, ran) ==
  IF ran = <<>> THEN ks ELSE FoldKinds(KindsAfter(ks, Head(ran)), Tail(ran))

\* parseForward: c.Next() finds another stanza; parseStanza up to its block.
ParseStanzaHead(nstz, dls) ==
  /\ phase = "next"
  /\ Len(fs) < nstz
  /\ \E dl \in dls :
       /\ dests' = dl
       /\ IF Len(dl) = 0
          THEN /\ phase' = "err" /\ err' = [stz |-> Len(fs) + 1, reason |-> "ArgErr"]
               /\ f' = New
          ELSE IF \E i \in 1..Len(dl) : dl[i] = "?"
          THEN /\ phase' = "err" /\ err' = [stz |-> Len(fs) + 1, reason |-> "HostPortOrFile"]
               /\ f' = New
          ELSE IF \E i \in 1..Len(dl) : dl[i] \notin AllowedTrans
          THEN /\ phase' = "err"
               /\ err' = [stz |-> Len(fs) + 1, reason |-> "not supported as a destination protocol"]
               /\ f' = New
          ELSE /\ phase' = "block" /\ err' = err
               /\ f' = [New EXCEPT !.proxies = [i \in 1..Len(dl) |-> NewProxy(dl[i])]]
  /\ lastOpt' = NoOpt
  /\ nopts' = 0
  /\ kinds' = {}
  /\ UNCHANGED <<line, hk, px, kindsOf, fs, si, plugins, startHooks, shutHooks, started, stopped, ticks, lastTick>>

\* parseStanza: one c.NextBlock() iteration calling parseBlock.
ParseBlockStep(opts) ==
  /\ phase = "block"
  /\ nopts < MaxBlock
  /\ \E o \in opts :
       LET r == ParseTokens(f, <<o.k>> \o o.args) IN
       /\ lastOpt' = o
       /\ kinds' = FoldKinds(kinds, r.ran)
       /\ IF r.err = ""
          THEN /\ f' = r.f /\ err' = err
               /\ phase' = IF r.closed THEN "closed" ELSE phase
          ELSE /\ f' = f /\ phase' = "err" /\ err' = [stz |-> Len(fs) + 1, reason |-> r.err]
  /\ nopts' = nopts + 1
  /\ UNCHANGED <<line, hk, px, dests, kindsOf, fs, si, plugins, startHooks, shutHooks, started, stopped, ticks, lastTick>>

\* parseStanza after its block; parseForward sets the index and appends.
EndStanza ==
  /\ phase \in {"block", "closed"}
  /\ phase' = "next"
  /\ fs' = Append(fs, [FinishStanza(f) EXCEPT !.index = Len(fs)])
  /\ kindsOf' = Append(kindsOf, kinds)
  /\ UNCHANGED <<line, hk, px, f, dests, lastOpt, nopts, kinds, si, plugins, startHooks, shutHooks,
                 started, stopped, ticks, lastTick, err>>

\* parseForward: c.Next() finds no further stanza; setup's loop begins.
EndParse ==
  /\ phase = "next"
  /\ Len(fs) >= 1
  /\ phase' = "setup"
  /\ UNCHANGED <<line, hk, px, f, dests, lastOpt, nopts, kinds, kindsOf, fs, si, plugins, startHooks,
                 shutHooks, started, stopped, ticks, lastTick, err>>

SetupStepValidateFirst ==
  /\ phase = "setup"
  /\ si <= Len(fs)
  /\ IF \E k \in si..Len(fs) : TooMany(fs[k])
     THEN /\ phase' = "err"
          /\ err' = [stz |-> CHOOSE k \in si..Len(fs) : TooMany(fs[k]) /\ \A j \in si..(k-1) : ~TooMany(fs[j]),
                     reason |-> "more than max TOs configured"]
          /\ UNCHANGED <<si, plugins, startHooks, shutHooks>>
     ELSE /\ plugins' = Append(plugins, si)
          /\ startHooks' = Append(startHooks, si)
          /\ shutHooks' = Append(shutHooks, si)
          /\ si' = si + 1
          /\ UNCHANGED <<phase, err>>
  /\ UNCHANGED <<line, hk, px, f, dests, lastOpt, nopts, kinds, kindsOf, fs, started, stopped, ticks, lastTick>>

\* setup: one iteration of the registration loop.
SetupStep ==
  /\ phase = "setup"
  /\ si <= Len(fs)
  /\ IF TooMany(fs[si])
     THEN /\ phase' = "err"
          /\ err' = [stz |-> si, reason |-> "more than max TOs configured"]
          /\ UNCHANGED <<si, plugins, startHooks, shutHooks>>
     ELSE /\ plugins' = Append(plugins, si)
          /\ startHooks' = Append(startHooks, si)
          /\ shutHooks' = Append(shutHooks, si)
          /\ si' = si + 1
          /\ UNCHANGED <<phase, err>>
  /\ UNCHANGED <<line, hk, px, f, dests, lastOpt, nopts, kinds, kindsOf, fs, started, stopped, ticks, lastTick>>

\* setup returns nil.
SetupDone ==
  /\ phase = "setup"
  /\ si > Len(fs)
  /\ phase' = "ready"
  /\ UNCHANGED <<line, hk, px, f, dests, lastOpt, nopts, kinds, kindsOf, fs, si, plugins, startHooks,
                 shutHooks, started, stopped, ticks, lastTick, err>>

\* proxy start(interval) / stop(): the proxy's health-probe loop.
ProxyStart(p, d) == [p EXCEPT !.running = TRUE, !.interval = d]
ProxyStop(p) == [p EXCEPT !.running = FALSE]

\* (f *Forward) OnStartup: one iteration of its loop, p.start(f.hcInterval).
OnStartupStep(g, i) == [g EXCEPT !.proxies[i] = ProxyStart(g.proxies[i], g.hcInterval)]
OnShutdownStepFirstOnly(g, i) ==
  IF i = 1 THEN [g EXCEPT !.proxies[i] = ProxyStop(g.proxies[i])] ELSE g
\* (f *Forward) OnShutdown: one iteration of its loop, p.stop().
OnShutdownStep(g, i) == [g EXCEPT !.proxies[i] = ProxyStop(g.proxies[i])]

\* The host runs the registered OnStartup hooks once setup succeeded.
HostStartupBegin ==
  /\ phase = "ready"
  /\ phase' = "starting" /\ hk' = 1 /\ px' = 1
  /\ UNCHANGED <<line, f, dests, lastOpt, nopts, kinds, kindsOf, fs, si, plugins, startHooks,
                 shutHooks, started, stopped, ticks, lastTick, err>>

\* OnStartup of hook hk: start proxy px, or return once all are started.
RunStartupHook ==
  /\ phase = "starting"
  /\ hk <= Len(startHooks)
  /\ LET k == startHooks[hk] IN
     IF px <= Len(fs[k].proxies)
     THEN /\ fs' = [fs EXCEPT ![k] = OnStartupStep(fs[k], px)]
          /\ px' = px + 1
          /\ UNCHANGED <<hk, started>>
     ELSE /\ started' = started \cup {k}
          /\ hk' = hk + 1 /\ px' = 1
          /\ UNCHANGED fs
  /\ UNCHANGED <<line, phase, f, dests, lastOpt, nopts, kinds, kindsOf, si, plugins, startHooks,
                 shutHooks, stopped, ticks, lastTick, err>>

HostStartupEnd ==
  /\ phase = "starting"
  /\ hk > Len(startHooks)
  /\ phase' = "started"
  /\ UNCHANGED <<line, hk, px, f, dests, lastOpt, nopts, kinds, kindsOf, fs, si, plugins, startHooks,
                 shutHooks, started, stopped, ticks, lastTick, err>>

\* The host runs the registered OnShutdown hooks.
HostShutdownBegin ==
  /\ phase = "started"
  /\ phase' = "stopping" /\ hk' = 1 /\ px' = 1
  /\ UNCHANGED <<line, f, dests, lastOpt, nopts, kinds, kindsOf, fs, si, plugins, startHooks,
                 shutHooks, started, stopped, ticks, lastTick, err>>

\* OnShutdown of hook hk: stop proxy px, or return once all are stopped.
RunShutdownHook ==
  /\ phase = "stopping"
  /\ hk <= Len(shutHooks)
  /\ LET k == shutHooks[hk] IN
     IF px <= Len(fs[k].proxies)
     THEN /\ fs' = [fs EXCEPT ![k] = OnShutdownStep(fs[k], px)]
          /\ px' = px + 1
          /\ UNCHANGED <<hk, stopped>>
     ELSE /\ stopped' = stopped \cup {k}
          /\ hk' = hk + 1 /\ px' = 1
          /\ UNCHANGED fs
  /\ UNCHANGED <<line, phase, f, dests, lastOpt, nopts, kinds, kindsOf, si, plugins, startHooks,
                 shutHooks, started, ticks, lastTick, err>>

HostShutdownEnd ==
  /\ phase = "stopping"
  /\ hk > Len(shutHooks)
  /\ phase' = "stopped"
  /\ UNCHANGED <<line, hk, px, f, dests, lastOpt, nopts, kinds, kindsOf, fs, si, plugins, startHooks,
                 shutHooks, started, stopped, ticks, lastTick, err>>

\* One tick of a running health-probe loop with a non-zero interval, in
\* stanza lastTick; it may fall between the start or stop calls.
Tick ==
  /\ phase \in {"starting", "started", "stopping", "stopped"}
  /\ ticks < MaxTicks
  /\ \E k \in 1..Len(fs) :
       /\ \E i \in 1..Len(fs[k].proxies) :
            fs[k].proxies[i].running /\ fs[k].proxies[i].interval > 0
       /\ lastTick' = k
  /\ ticks' = ticks + 1
  /\ UNCHANGED <<line, hk, px, phase, f, dests, lastOpt, nopts, kinds, kindsOf, fs, si, plugins,
                 startHooks, shutHooks, started, stopped, err>>

\* nstz: stanzas in the Corefile at most; dls: their destination lists;
\* opts: the block lines they may hold.
NextWith(nstz, dls, opts) ==
  \/ ParseStanzaHead(nstz, dls)
  \/ ParseBlockStep(opts)
  \/ EndStanza
  \/ EndParse
  \/ SetupStep
  \/ SetupDone
  \/ HostStartupBegin
  \/ RunStartupHook
  \/ HostStartupEnd
  \/ HostShutdownBegin
  \/ RunShutdownHook
  \/ HostShutdownEnd
  \/ Tick

\* One forward stanza with any block.
Next == NextWith(1, DestLists, Opts)
Spec == Init /\ [][Next]_vars

\* Several forward stanzas, blocks over the options the validation is about.
MultiOpts ==
  { Opt("max_fails", <<"1">>), Opt("max_fails", <<"-1">>),
    Opt("retry_failed", <<"1">>), Opt("retry_failed", <<"2">>) }
MultiDests == {[i \in 1..n |-> "dns"] : n \in {1, Max + 1}}
NextMulti == NextWith(MaxStanzas, MultiDests, MultiOpts)
SpecMulti == Init /\ [][NextMulti]_vars

\* ---------------------------------------------------------------- except_file
MaxLineLen == 4
Chars == {97, 65, 47, 35, 32, 160, 12288, 233, 46}
Lines == UNION {[1..n -> Chars] : n \in 0..MaxLineLen}

\* One scanner.Scan() iteration of the except_file loop.
ScanExceptLine ==
  /\ phase = "next" /\ nopts = 0
  /\ \E l \in Lines :
       /\ line' = l
       /\ f' = [f EXCEPT !.ignored = @ \o ExceptLine(l)]
  /\ nopts' = 1
  /\ UNCHANGED <<hk, px, phase, dests, lastOpt, kinds, kindsOf, fs, si, plugins, startHooks,
                 shutHooks, started, stopped, ticks, lastTick, err>>

\* parseBlock on an except line.
ExceptArgs ==
  /\ phase = "next" /\ nopts = 0
  /\ \E nm \in DOMAIN ArgChars :
       /\ lastOpt' = Opt("except", <<nm>>)
       /\ f' = ParseBlock(f, Opt("except", <<nm>>)).f
  /\ nopts' = 1
  /\ UNCHANGED <<line, hk, px, phase, dests, kinds, kindsOf, fs, si, plugins, startHooks,
                 shutHooks, started, stopped, ticks, lastTick, err>>

\* parseBlock on an except_file line: the whole scanner loop over a file.
ReadExceptFile ==
  /\ phase = "next" /\ nopts = 0
  /\ \E nm \in DOMAIN Files :
       /\ lastOpt' = Opt("except_file", <<nm>>)
       /\ f' = ParseBlock(f, Opt("except_file", <<nm>>)).f
  /\ nopts' = 1
  /\ UNCHANGED <<line, hk, px, phase, dests, kinds, kindsOf, fs, si, plugins, startHooks,
                 shutHooks, started, stopped, ticks, lastTick, err>>

ExceptNext == ScanExceptLine \/ ExceptArgs \/ ReadExceptFile
SpecExcept == Init /\ [][ExceptNext]_vars

\* ================================================================ properties

NumArg(o) == IF Len(o.args) > 0 /\ o.args[1] \in DOMAIN Num THEN Num[o.args[1]] ELSE -99

\* C1: a stanza with more than 15 destinations, a negative max_fails, or a
\* retry_failed above its destination count makes setup fail, and no OnStartup
\* of that configuration ever runs.
C1_SetupValidation ==
  /\ (lastOpt = Opt("max_fails", <<"-1">>) => phase = "err")
  /\ ((lastOpt.k = "retry_failed" /\ NumArg(lastOpt) > Len(dests)) => phase = "err")
  /\ ((\E k \in 1..Len(fs) : Len(fs[k].proxies) > 15) => phase \notin OkPhases)
  /\ (phase = "err" => started = {})
  /\ \A k \in started : Len(fs[k].proxies) <= 15
C1_Witness ==
  /\ phase = "err"
  /\ err.reason \in {"more than max TOs configured", "max_fails can't be negative",
                     "retry_failed can't be larger than number of proxies"}
  /\ err.stz = 2

\* C2: every accepted configuration has 0 <= retry limit <= targets,
\* concurrency limit >= 0, failure threshold >= 0 and 1 <= targets <= 15.
C2_AcceptedBounds ==
  phase \in OkPhases =>
    \A k \in 1..Len(fs) :
      /\ 0 <= fs[k].maxFailedTries /\ fs[k].maxFailedTries <= Len(fs[k].proxies)
      /\ fs[k].maxConcurrent >= 0
      /\ fs[k].maxfails >= 0
      /\ 1 <= Len(fs[k].proxies) /\ Len(fs[k].proxies) <= 15
C2_Witness ==
  /\ phase \in OkPhases
  /\ fs[1].maxFailedTries = Len(fs[1].proxies)
  /\ fs[1].maxConcurrent > 0

\* C3 (as stated): no accepted configuration has both force_tcp and prefer_udp.
C3_Exclusive ==
  phase \in OkPhases => \A k \in 1..Len(fs) : ~(fs[k].opts.forceTCP /\ fs[k].opts.preferUDP)
\* C3 (amended): force_tcp and prefer_udp are independent flags: an accepted
\* stanza has forceTCP iff its block has force_tcp and preferUDP iff it has
\* prefer_udp, so both may be set.
C3_Independent ==
  phase \in OkPhases =>
    \A k \in 1..Len(fs) :
      /\ fs[k].opts.forceTCP <=> "force_tcp" \in kindsOf[k]
      /\ fs[k].opts.preferUDP <=> "prefer_udp" \in kindsOf[k]
C3_Witness ==
  /\ phase \in OkPhases
  /\ fs[1].opts.forceTCP /\ fs[1].opts.preferUDP

\* C4: each invalid option value (negative health_check or expire, negative
\* max_concurrent, unknown policy, unknown health_check option, unknown
\* property, destination transport other than dns/tls) fails setup.
KnownProps == {"except", "except_file", "max_fails", "health_check", "force_tcp",
               "prefer_udp", "tls", "tls_servername", "expire", "policy",
               "max_concurrent", "retry_failed"}
InvalidOpt(o) ==
  /\ o # NoOpt
  /\ \/ (o.k \in {"health_check", "expire"} /\ Len(o.args) > 0
          /\ o.args[1] \in DOMAIN Dur /\ Dur[o.args[1]] < 0)
     \/ (o.k = "max_concurrent" /\ NumArg(o) < 0 /\ NumArg(o) # -99)
     \/ (o.k = "policy" /\ Len(o.args) > 0
          /\ o.args[1] \notin {"random", "round_robin", "sequential"})
     \/ (o.k = "health_check" /\ \E i \in 2..Len(o.args) : o.args[i] # "no_rec")
     \/ o.k \notin KnownProps
C4_InvalidRejected ==
  /\ InvalidOpt(lastOpt) => phase = "err"
  /\ (\E i \in 1..Len(dests) : dests[i] \notin {"dns", "tls"}) => phase = "err"
C4_Witness ==
  /\ phase = "err"
  /\ InvalidOpt(lastOpt)
  /\ nopts = 2

\* The per-line rule of C5: before its first '#', exactly one whitespace-
\* separated token remains; a token without '/' adds itself, a token a/b/c
\* adds b, any other token nothing.
NoSlash(t) == \A i \in 1..Len(t) : t[i] # 47
Token(p, t) ==
  \E a \in 0..Len(p) : \E b \in 0..Len(p) :
    /\ a < b
    /\ t = SubSeq(p, a + 1, b)
    /\ \A i \in 1..Len(p) : (a < i /\ i <= b) <=> p[i] \notin WhiteSpace
LineSpec(l, out) ==
  LET p == CHOOSE p \in {SubSeq(l, 1, n) : n \in 0..Len(l)} :
             /\ \A i \in 1..Len(p) : p[i] # 35
             /\ Len(p) = Len(l) \/ l[Len(p) + 1] = 35
      toks == {SubSeq(p, a + 1, b) : a \in 0..Len(p), b \in 0..Len(p)}
  IN IF \E t \in toks : Token(p, t)
     THEN LET t == CHOOSE t \in toks : Token(p, t) IN
          IF NoSlash(t) THEN out = <<Normalize(t)>>
          ELSE IF \E i \in 1..Len(t) : \E j \in 1..Len(t) :
                    i < j /\ t[i] = 47 /\ t[j] = 47
                    /\ NoSlash(SubSeq(t, 1, i - 1)) /\ NoSlash(SubSeq(t, i + 1, j - 1))
                    /\ NoSlash(SubSeq(t, j + 1, Len(t)))
               THEN \E i \in 1..Len(t) : \E j \in 1..Len(t) :
                    i < j /\ t[i] = 47 /\ t[j] = 47
                    /\ NoSlash(SubSeq(t, i + 1, j - 1))
                    /\ out = <<Normalize(SubSeq(t, i + 1, j - 1))>>
               ELSE out = <<>>
     ELSE out = <<>>
IsNormal(n) == Len(n) > 0 /\ n[Len(n)] = 46 /\ \A i \in 1..Len(n) : n[i] \notin 65..90
\* C6: the policy is random, round_robin or sequential; any other policy
\* value fails setup; the policy of a configured Forward never changes after.
C6_Policy ==
  /\ [](phase \in OkPhases => \A k \in 1..Len(fs) : fs[k].p \in {"random", "round_robin", "sequential"})
  /\ []((lastOpt.k = "policy" /\ lastOpt.args[1] \notin {"random", "round_robin", "sequential"})
          => phase = "err")
  /\ [][(phase \in OkPhases) => (\A k \in 1..Len(fs) : fs'[k].p = fs[k].p)]_vars
C6_Witness ==
  /\ phase = "stopped"
  /\ fs[1].p = "sequential"

\* C7: OnStartup starts every proxy's probe loop with the configured interval;
\* after OnShutdown no proxy's loop runs and no tick fires.
C7_Lifecycle ==
  /\ [](\A k \in started : phase \in {"starting", "started"} =>
          \A i \in 1..Len(fs[k].proxies) :
            fs[k].proxies[i].running /\ fs[k].proxies[i].interval = fs[k].hcInterval)
  /\ [](\A k \in stopped : \A i \in 1..Len(fs[k].proxies) : ~fs[k].proxies[i].running)
  /\ [][ticks' # ticks => (lastTick' \notin stopped)]_vars
C7_Witness ==
  /\ stopped # {}
  /\ ticks = 1
  /\ Len(fs[1].proxies) > 1

\* C8: every proxy gets the stanza's expire and recursion-desired flag (false
\* iff health_check had no_rec); only TLS proxies get the TLS config, whose
\* ServerName is tls_servername when set, in either order of tls and
\* tls_servername.
C8_ProxyAttrs ==
  \A k \in 1..Len(fs) :
    LET g == fs[k] IN
    /\ \A i \in 1..Len(g.proxies) :
         /\ g.proxies[i].expire = g.expire
         /\ (~g.proxies[i].rec <=> "no_rec" \in kindsOf[k])
         /\ (g.proxies[i].tls # NoTLS <=> g.proxies[i].trans = "tls")
         /\ (g.proxies[i].trans = "tls" => g.proxies[i].tls = g.tlsConfig)
    /\ (g.tlsServerName # "" => g.tlsConfig.sn = g.tlsServerName)
C8_Witness ==
  \E k \in 1..Len(fs) :
    /\ "sn_before_tls" \in kindsOf[k]
    /\ fs[k].tlsConfig.src = "args"
    /\ \E i \in 1..Len(fs[k].proxies) :
         fs[k].proxies[i].trans = "tls" /\ fs[k].proxies[i].tls.sn = "s"
    /\ \E j \in 1..Len(fs[k].proxies) : fs[k].proxies[j].trans = "dns"

\* C9: setup checks the limit stanza by stanza: when stanza k has more than 15
\* destinations, the plugin and hooks of stanzas 1..k-1 are already registered.
C9_PartialRegistration ==
  (phase = "err" /\ err.reason = "more than max TOs configured") =>
    /\ plugins = [i \in 1..(err.stz - 1) |-> i]
    /\ startHooks = [i \in 1..(err.stz - 1) |-> i]
    /\ shutHooks = [i \in 1..(err.stz - 1) |-> i]
C9_Witness ==
  /\ phase = "err"
  /\ err.reason = "more than max TOs configured"
  /\ err.stz = 2

\* C10: retry_failed n >= 0 is accepted iff n <= the stanza's destination
\* count, at any position of the block, and then sets the retry limit.
C10_RetryVsDests ==
  [][(nopts' = nopts + 1 /\ lastOpt'.k = "retry_failed" /\ NumArg(lastOpt') >= 0) =>
       (/\ (phase' = "err") <=> NumArg(lastOpt') > Len(dests)
        /\ phase' # "err" => f'.maxFailedTries = NumArg(lastOpt'))]_vars
C10_Witness ==
  /\ phase = "err"
  /\ nopts = 2
  /\ lastOpt = Opt("retry_failed", <<"2">>)
  /\ Len(dests) = 1
  /\ Len(fs) = 1 /\ fs[1].maxFailedTries = 2

\* C5 (as stated, over whole files): the except_file names are, line after
\* line, what each line contributes by the rule above (nothing for a blank
\* line, the token itself for a single token without '/', the middle part of
\* a single a/b/c token), every one normalized.
SimpleLine(l) == Len(l) > 0 /\ \A j \in 1..Len(l) : l[j] \notin WhiteSpace \cup {35, 47}
CommentLine(l) == \E i \in 1..Len(l) : l[i] = 35 /\ \A k \in 1..(i - 1) : l[k] \in WhiteSpace
ClaimOut(l) ==
  IF \A j \in 1..Len(l) : l[j] \in WhiteSpace THEN <<>>
  ELSE IF CommentLine(l) THEN <<>>
  ELSE IF SimpleLine(l) THEN <<Normalize(l)>>
  ELSE CHOOSE out \in {<<>>} \cup {<<Normalize(SubSeq(l, a, b))>> : a \in 1..Len(l), b \in 0..Len(l)} :
         LineSpec(l, out)
RECURSIVE ClaimFile(_)
ClaimFile(lines) == IF lines = <<>> THEN <<>> ELSE ClaimOut(Head(lines)) \o ClaimFile(Tail(lines))
C5_FileClaim ==
  /\ lastOpt.k = "except_file" => f.ignored = ClaimFile(Files[lastOpt.args[1]])
  /\ \A i \in 1..Len(f.ignored) : IsNormal(f.ignored[i])

====
